---- MODULE Spec2Model ----
(***************************************************************************)
(* Model of send_config.py: bulk provisioning of a Smart Licensing         *)
(* call-home profile on IOS-XE devices over SSH.                           *)
(*                                                                         *)
(* run() = loadDeviceList ; credential prompts ; updateConfiguration ;     *)
(* printResults.  updateConfiguration is cut at its blocking transport     *)
(* calls (conn.open, send_configs, send_configs, send_command): one action *)
(* per call, each carrying all the code that follows the call up to the    *)
(* next one (recording, close, progress.advance, continue).                *)
(*                                                                         *)
(* Text is modelled as tuples of one-character strings so that strip()     *)
(* and ip_address() are computed, not assumed.                             *)
(***************************************************************************)
EXTENDS Integers, Sequences, FiniteSets, TLC

VARIABLES
    REMOVE_DEFAULT_PROFILE, \* the setting of line 30
    readable,       \* whether open(DEVICE_LIST, "r") succeeds
    file,           \* the lines of the DEVICE_LIST file
    pc,             \* position of the run
    valid_ips,      \* loadDeviceList's valid_ips  (iplist of updateConfiguration)
    invalid_ips,    \* loadDeviceList's invalid_ips (bad_ips of printResults)
    creds,          \* NoCreds before the prompts, then [user, password, enable_pw]
    idx,            \* number of addresses the for loop has taken from iplist
    c,              \* local c of updateConfiguration: NoSession or a session handle
    err,            \* local err of updateConfiguration
    result,         \* local result of updateConfiguration (last Response)
    status,         \* [errors |-> dict, success |-> list]
    advanced,       \* number of progress.advance(task) calls
    exc,            \* the exception that left run(), or None
    printed,        \* the numbers printResults printed, in print order
    \* -- observations of the transport (history, written where the call is made)
    connects,       \* hosts passed to connectSSH, in call order
    opens,          \* per connectSSH call: what conn.open() did, what came back as err
    sessions,       \* per loop iteration: "none" | "open" | "closed"
    closes,         \* per loop iteration: number of close() calls on its session
    submitted,      \* per loop iteration: stages sent to the device, in order
    replies         \* per loop iteration: Responses the stages returned, in order

vars == <<REMOVE_DEFAULT_PROFILE, readable, file, pc, valid_ips, invalid_ips, creds,
          idx, c, err, result, status, advanced, exc, printed,
          connects, opens, sessions, closes, submitted, replies>>

\* Python's None, where the other values of the variable are texts.
None == "None"
\* c is None: session handles are the loop iterations 1, 2, ...
NoSession == 0

-----------------------------------------------------------------------------
(* Bounds and input alphabets *)

\* Longest device list file, in lines.
MaxLines == 3

\* "1.1.1.1\n"
LineA == <<"1", ".", "1", ".", "1", ".", "1", "\n">>
\* " 1.1.1.1" : the same address, indented, last line without a newline
LineA2 == <<" ", "1", ".", "1", ".", "1", ".", "1">>
\* "1.1.1.2\n"
LineB == <<"1", ".", "1", ".", "1", ".", "2", "\n">>
\* " \n" : a blank line
LineBlank == <<" ", "\n">>
\* "a.b\n" : a host name
LineHost == <<"a", ".", "b", "\n">>
\* "1.1.1.256\n" : an octet out of range
LineBig == <<"1", ".", "1", ".", "1", ".", "2", "5", "6", "\n">>

RawLines == {LineA, LineA2, LineB, LineBlank, LineHost, LineBig}

RECURSIVE SeqsUpTo(_, _)
SeqsUpTo(S, n) ==
    IF n = 0 THEN {<<>>}
    ELSE LET shorter == SeqsUpTo(S, n - 1)
         IN  shorter \cup {Append(s, x) : s \in {t \in shorter : Len(t) = n - 1}, x \in S}

Files == SeqsUpTo(RawLines, MaxLines)

\* Texts of str(e) for the two caught scrapli exceptions; "" is str(e) of an
\* exception raised without a message.
ExcMsgs == {"", "auth or privilege failed"}

\* Text of Response.result for a failed stage: what the device answers to the
\* commands of that stage, one text per stage.
Output(stage) ==
    CASE stage = "remove"   -> "% Profile CiscoTAC-1 cannot be removed"
      [] stage = "apply"    -> "% Invalid input detected"
      [] stage = "register" -> "% License registration failed"

-----------------------------------------------------------------------------
(* str.strip() and ipaddress.ip_address() *)

IsSpace(ch) == ch \in {" ", "\n", "\t", "\r"}

RECURSIVE lstrip(_)
lstrip(s) ==
    IF s = <<>> THEN <<>>
    ELSE IF IsSpace(Head(s)) THEN lstrip(Tail(s)) ELSE s

RECURSIVE rstrip(_)
rstrip(s) ==
    IF s = <<>> THEN <<>>
    ELSE IF IsSpace(s[Len(s)]) THEN rstrip(SubSeq(s, 1, Len(s) - 1)) ELSE s

strip(s) == rstrip(lstrip(s))

DigitChars == <<"0", "1", "2", "3", "4", "5", "6", "7", "8", "9">>
IsDigit(ch) == \E d \in 1..10 : DigitChars[d] = ch
DigitVal(ch) == (CHOOSE d \in 1..10 : DigitChars[d] = ch) - 1

\* s.split(sep): cur is the piece being read, acc the pieces already closed.
RECURSIVE SplitFrom(_, _, _, _)
SplitFrom(s, sep, cur, acc) ==
    IF s = <<>> THEN Append(acc, cur)
    ELSE IF Head(s) = sep THEN SplitFrom(Tail(s), sep, <<>>, Append(acc, cur))
    ELSE SplitFrom(Tail(s), sep, Append(cur, Head(s)), acc)

split(s, sep) == SplitFrom(s, sep, <<>>, <<>>)

RECURSIVE IntOf(_, _)
IntOf(s, acc) == IF s = <<>> THEN acc ELSE IntOf(Tail(s), 10 * acc + DigitVal(Head(s)))

\* IPv4Address._parse_octet: non-empty, decimal digits only, at most three of
\* them, no leading zero, value at most 255.
ParseOctetOK(o) ==
    /\ o # <<>>
    /\ \A k \in 1..Len(o) : IsDigit(o[k])
    /\ Len(o) <= 3
    /\ (Len(o) > 1 => o[1] # "0")
    /\ IntOf(o, 0) <= 255

\* IPv4Address._ip_int_from_string: exactly four octets between dots.
IsIPv4(s) ==
    LET octets == split(s, ".")
    IN  /\ s # <<>>
        /\ Len(octets) = 4
        /\ \A k \in 1..4 : ParseOctetOK(octets[k])

\* IPv6Address._ip_int_from_string rejects a text with fewer than three
\* ":"-separated parts; no text of RawLines has a ":", so the rest of the IPv6
\* parser is never reached.
IsIPv6(s) == Len(split(s, ":")) >= 3 /\ FALSE

\* ip_address(line) returns normally (TRUE) or raises ValueError (FALSE).
ip_address(s) == IsIPv4(s) \/ IsIPv6(s)

\* Variant of LoadLines without the blank-line test: a blank line goes on to
\* ip_address and lands in invalid.
RECURSIVE LoadLines_KeepBlank(_, _, _)
LoadLines_KeepBlank(lines, valid, invalid) ==
    IF lines = <<>> THEN <<valid, invalid>>
    ELSE LET line == strip(Head(lines))
         IN  IF ip_address(line)
             THEN LoadLines_KeepBlank(Tail(lines), Append(valid, line), invalid)
             ELSE LoadLines_KeepBlank(Tail(lines), valid, Append(invalid, line))

\* The for loop of loadDeviceList over the lines of the file.
RECURSIVE LoadLines(_, _, _)
LoadLines(lines, valid, invalid) ==
    IF lines = <<>> THEN <<valid, invalid>>
    ELSE LET line == strip(Head(lines))
         IN  IF line = <<>> THEN LoadLines(Tail(lines), valid, invalid)
             ELSE IF ip_address(line)
                  THEN LoadLines(Tail(lines), Append(valid, line), invalid)
                  ELSE LoadLines(Tail(lines), valid, Append(invalid, line))

-----------------------------------------------------------------------------
(* State machine *)

NoResponse == [failed |-> FALSE, result |-> None]
NoCreds == [user |-> None, password |-> None, enable_pw |-> None]
EmptyStatus == [errors |-> <<>>, success |-> <<>>]

Init ==
    /\ REMOVE_DEFAULT_PROFILE \in BOOLEAN
    /\ readable \in BOOLEAN
    /\ file \in Files
    /\ pc = "start"
    /\ valid_ips = <<>>
    /\ invalid_ips = <<>>
    /\ creds = NoCreds
    /\ idx = 0
    /\ c = NoSession
    /\ err = None
    /\ result = NoResponse
    /\ status = EmptyStatus
    /\ advanced = 0
    /\ exc = None
    /\ printed = <<>>
    /\ connects = <<>>
    /\ opens = <<>>
    /\ sessions = <<>>
    /\ closes = <<>>
    /\ submitted = <<>>
    /\ replies = <<>>

\* run() line 234: loadDeviceList().  open() of an unreadable file raises and
\* the error leaves run().
loadDeviceList ==
    /\ pc = "start"
    /\ IF ~readable
       THEN /\ pc' = "raised"
            /\ exc' = "OSError"
            /\ UNCHANGED <<valid_ips, invalid_ips>>
       ELSE LET loaded == LoadLines(file, <<>>, <<>>)
            IN  /\ valid_ips' = loaded[1]
                /\ invalid_ips' = loaded[2]
                /\ pc' = "prompt"
                /\ exc' = exc
    /\ UNCHANGED <<REMOVE_DEFAULT_PROFILE, readable, file, creds, idx, c, err, result,
                   status, advanced, printed, connects, sessions, closes, submitted,
                   replies,
                   opens>>

\* run() lines 237-243: the credential prompts; the enable password is asked
\* for only when the user confirms.
collectCredentials ==
    /\ pc = "prompt"
    /\ \E enable_pw \in {None, "secret"} :
          creds' = [user |-> "admin", password |-> "pw", enable_pw |-> enable_pw]
    /\ pc' = "enter"
    /\ UNCHANGED <<REMOVE_DEFAULT_PROFILE, readable, file, valid_ips, invalid_ips, idx,
                   c, err, result, status, advanced, exc, printed, connects, sessions,
                   closes, submitted, replies,
                   opens>>

\* A Python dict as its items in insertion order: d[k] = v replaces the value
\* of an existing key in place and appends a new key.
dictHas(d, k) == \E j \in 1..Len(d) : d[j].key = k
dictSet(d, k, v) ==
    IF dictHas(d, k)
    THEN [j \in 1..Len(d) |-> IF d[j].key = k THEN [key |-> k, value |-> v] ELSE d[j]]
    ELSE Append(d, [key |-> k, value |-> v])
dictGet(d, k) == d[CHOOSE j \in 1..Len(d) : d[j].key = k].value
dictKeys(d) == {d[j].key : j \in 1..Len(d)}

\* `if err:` : None and the empty text are false.
Truthy(e) == e # None /\ e # ""

\* What conn.open() can do (lines 123-129).
OpenOutcomes ==
    {[kind |-> "ok", msg |-> None], [kind |-> "other", msg |-> None]}
    \cup [kind : {"auth", "priv"}, msg : ExcMsgs]

\* connectSSH(device, ...) for one outcome of conn.open(): the pair it returns,
\* or the exception it lets through (any exception other than the two caught).
connectSSH(handle, outcome) ==
    CASE outcome.kind = "ok"    -> [raised |-> FALSE, c |-> handle, err |-> None]
      [] outcome.kind = "auth"  -> [raised |-> FALSE, c |-> NoSession, err |-> outcome.msg]
      [] outcome.kind = "priv"  -> [raised |-> FALSE, c |-> NoSession, err |-> outcome.msg]
      [] OTHER                  -> [raised |-> TRUE, c |-> NoSession, err |-> None]

\* What send_configs / send_command can do: return a Response, or raise.
Responses(stage) ==
    {[failed |-> FALSE, result |-> "ok"], [failed |-> TRUE, result |-> Output(stage)]}
StageOutcomes(stage) ==
    [raised : {FALSE}, response : Responses(stage)]
    \cup {[raised |-> TRUE, response |-> NoResponse]}

\* Variant of FirstStage that ignores the toggle.
FirstStage_Always == "remove"

\* The first stage after "Connected" (line 158).
FirstStage == IF REMOVE_DEFAULT_PROFILE THEN "remove" ELSE "apply"

\* run() line 246 and lines 136-141: entry of updateConfiguration.
beginUpdate ==
    /\ pc = "enter"
    /\ status' = EmptyStatus
    /\ idx' = 0
    /\ advanced' = 0
    /\ sessions' = [i \in 1..Len(valid_ips) |-> "none"]
    /\ closes' = [i \in 1..Len(valid_ips) |-> 0]
    /\ submitted' = [i \in 1..Len(valid_ips) |-> <<>>]
    /\ replies' = [i \in 1..Len(valid_ips) |-> <<>>]
    /\ pc' = "loop"
    /\ UNCHANGED <<REMOVE_DEFAULT_PROFILE, readable, file, valid_ips, invalid_ips,
                   creds, c, err, result, exc, printed, connects,
                   opens>>

\* c.close() on the session of iteration i.
closeSession(i) ==
    /\ sessions' = [sessions EXCEPT ![i] = "closed"]
    /\ closes' = [closes EXCEPT ![i] = @ + 1]

\* Variant of NextAddress that walks iplist from its end.
NextAddress_Reversed(i) == valid_ips[Len(valid_ips) + 1 - i]

\* Line 142, `for ip in iplist`: the address of the i-th iteration.
NextAddress(i) == valid_ips[i]

\* Lines 142-155: the loop takes the next address and connects to it.
connect ==
    /\ pc = "loop"
    /\ idx < Len(valid_ips)
    /\ LET i == idx + 1
           ip == NextAddress(i)
       IN  /\ idx' = i
           /\ connects' = Append(connects, ip)
           /\ \E outcome \in OpenOutcomes :
                LET r == connectSSH(i, outcome)
                IN  /\ opens' = Append(opens, [kind |-> outcome.kind, err |-> r.err])
                    /\ IF r.raised
                       THEN /\ pc' = "raised"
                            /\ exc' = "ScrapliException"
                            /\ UNCHANGED <<c, err, status, advanced, sessions>>
                       ELSE /\ c' = r.c
                            /\ err' = r.err
                            /\ exc' = exc
                            /\ sessions' = IF r.c = NoSession THEN sessions
                                           ELSE [sessions EXCEPT ![i] = "open"]
                            /\ IF Truthy(r.err)
                               THEN /\ status' = [status EXCEPT
                                                    !.errors = dictSet(@, ip, r.err)]
                                    /\ advanced' = advanced + 1
                                    /\ pc' = "loop"
                               ELSE /\ pc' = FirstStage
                                    /\ UNCHANGED <<status, advanced>>
    /\ UNCHANGED <<REMOVE_DEFAULT_PROFILE, readable, file, valid_ips, invalid_ips,
                   creds, result, printed, closes, submitted, replies>>

\* Variant of stageFailed that leaves out c.close().
stageFailed_NoClose(ip, response) ==
    /\ status' = [status EXCEPT !.errors = dictSet(@, ip, response.result)]
    /\ advanced' = advanced + 1
    /\ pc' = "loop"
    /\ UNCHANGED <<sessions, closes>>

\* Variant of stageFailed that records the result of the previous call.
stageFailed_StaleReason(ip, response) ==
    /\ status' = [status EXCEPT !.errors = dictSet(@, ip, result.result)]
    /\ closeSession(idx)
    /\ advanced' = advanced + 1
    /\ pc' = "loop"

\* The failure branch of a stage (lines 163-168, 176-181, 188-193).
stageFailed(ip, response) ==
    /\ status' = [status EXCEPT !.errors = dictSet(@, ip, response.result)]
    /\ closeSession(idx)
    /\ advanced' = advanced + 1
    /\ pc' = "loop"

\* Variant of stagesDone that leaves out c.close().
stagesDone_NoClose(ip) ==
    /\ status' = [status EXCEPT !.success = Append(@, ip)]
    /\ advanced' = advanced + 1
    /\ pc' = "loop"
    /\ UNCHANGED <<sessions, closes>>

\* Lines 197-200: all stages passed.
stagesDone(ip) ==
    /\ status' = [status EXCEPT !.success = Append(@, ip)]
    /\ closeSession(idx)
    /\ advanced' = advanced + 1
    /\ pc' = "loop"

\* One stage call on c and the test of its result.  On c = None the attribute
\* lookup c.send_configs raises before anything is sent.
sendStage(stage, after) ==
    /\ IF c = NoSession
       THEN /\ pc' = "raised"
            /\ exc' = "AttributeError"
            /\ UNCHANGED <<result, status, advanced, sessions, closes, submitted,
                           replies>>
       ELSE /\ submitted' = [submitted EXCEPT ![idx] = Append(@, stage)]
            /\ \E outcome \in StageOutcomes(stage) :
                 IF outcome.raised
                 THEN /\ pc' = "raised"
                      /\ exc' = "ScrapliException"
                      /\ UNCHANGED <<result, status, advanced, sessions, closes,
                                     replies>>
                 ELSE /\ result' = outcome.response
                      /\ replies' = [replies EXCEPT
                                       ![idx] = Append(@, outcome.response)]
                      /\ exc' = exc
                      /\ IF outcome.response.failed
                         THEN stageFailed(NextAddress(idx), outcome.response)
                         ELSE IF after = "success"
                              THEN stagesDone(NextAddress(idx))
                              ELSE /\ pc' = after
                                   /\ UNCHANGED <<status, advanced, sessions, closes>>
    /\ UNCHANGED <<REMOVE_DEFAULT_PROFILE, readable, file, valid_ips, invalid_ips,
                   creds, idx, c, err, printed, connects,
                   opens>>

\* Step 2, lines 158-170: c.send_configs(REMOVE_SSM_CONFIG).
removeDefaultProfile ==
    /\ pc = "remove"
    /\ sendStage("remove", "apply")

\* Variant of applyConfig that treats a passed apply stage as the end of the
\* sequence.
applyConfig_SkipRegister ==
    /\ pc = "apply"
    /\ sendStage("apply", "success")

\* Step 3, lines 173-183: c.send_configs(SSM_CONFIG).
applyConfig ==
    /\ pc = "apply"
    /\ sendStage("apply", "register")

\* Step 4 and the end of the loop body, lines 186-200:
\* c.send_command(LICENSE_REGISTER_COMMAND).
registerLicense ==
    /\ pc = "register"
    /\ sendStage("register", "success")

\* Line 201: the loop is exhausted, updateConfiguration returns status.
returnStatus ==
    /\ pc = "loop"
    /\ idx = Len(valid_ips)
    /\ pc' = "report"
    /\ UNCHANGED <<REMOVE_DEFAULT_PROFILE, readable, file, valid_ips, invalid_ips,
                   creds, idx, c, err, result, status, advanced, exc, printed,
                   connects, sessions, closes, submitted, replies,
                   opens>>

\* Lines 204-229: the two counts, then the table when the user asks for it
\* (one row per success, per key of errors, per bad address).
printResults ==
    /\ pc = "report"
    /\ \E details \in BOOLEAN :
          printed' = <<Len(status.success), Len(status.errors)>>
                     \o (IF details
                         THEN <<Len(status.success) + Len(status.errors)
                                + Len(invalid_ips)>>
                         ELSE <<>>)
    /\ pc' = "done"
    /\ UNCHANGED <<REMOVE_DEFAULT_PROFILE, readable, file, valid_ips, invalid_ips,
                   creds, idx, c, err, result, status, advanced, exc,
                   connects, sessions, closes, submitted, replies,
                   opens>>

Next ==
    \/ loadDeviceList
    \/ collectCredentials
    \/ beginUpdate
    \/ connect
    \/ removeDefaultProfile
    \/ applyConfig
    \/ registerLicense
    \/ returnStatus
    \/ printResults

Spec == Init /\ [][Next]_vars

-----------------------------------------------------------------------------
(* Vocabulary of the properties *)

Range(q) == {q[j] : j \in 1..Len(q)}

\* The non-blank lines of the input, as positions in the file.
NonBlankLines == {k \in 1..Len(file) : strip(file[k]) # <<>>}

\* The run went through loadDeviceList, updateConfiguration and printResults.
RunCompleted == pc = "done"

\* Processing of the device of the current iteration is over.
BetweenDevices == pc \in {"loop", "report", "done"}

Iterations == DOMAIN sessions

\* Iteration i got all its stages through: the last stage sent is the
\* registration and every reply, that one included, is a pass.
Succeeded(i) ==
    /\ submitted[i] # <<>>
    /\ submitted[i][Len(submitted[i])] = "register"
    /\ Len(replies[i]) = Len(submitted[i])
    /\ \A k \in 1..Len(replies[i]) : ~replies[i][k].failed

\* The addresses of the iterations 1..n that succeeded, in iteration order.
RECURSIVE SucceededUpTo(_)
SucceededUpTo(n) ==
    IF n = 0 THEN <<>>
    ELSE IF Succeeded(n) THEN Append(SucceededUpTo(n - 1), valid_ips[n])
         ELSE SucceededUpTo(n - 1)

Buckets(a) ==
    {b \in {"success", "errors", "invalid"} :
        \/ b = "success" /\ a \in Range(status.success)
        \/ b = "errors" /\ a \in dictKeys(status.errors)
        \/ b = "invalid" /\ a \in Range(invalid_ips)}

-----------------------------------------------------------------------------
(* Properties *)

\* C1: when a run completes, every non-blank input line is in exactly one of
\* status['success'], status['errors'] and invalid_ips, for every input list,
\* repeated addresses included.
C1_ExactlyOneBucket ==
    RunCompleted =>
        \A k \in NonBlankLines : Cardinality(Buckets(strip(file[k]))) = 1

\* C2: no per-device error (failed connection, transport error during a
\* stage) leaves updateConfiguration: the run is never ended by a transport
\* exception.
C2_NoDeviceErrorEscapes == exc # "ScrapliException"

\* C3: at every point between two devices, each iteration so far whose
\* session was opened has had close() called exactly once, and each iteration
\* whose connection failed has had no close(); close() is never called twice.
C3_ClosedExactlyOnce ==
    \A i \in Iterations :
        /\ closes[i] <= 1
        /\ (sessions[i] = "none" => closes[i] = 0)
        /\ (BetweenDevices /\ i <= idx) =>
               /\ sessions[i] # "open"
               /\ closes[i] = IF sessions[i] = "closed" THEN 1 ELSE 0

C3_Witness ==
    /\ pc = "loop" /\ idx = 3
    /\ sessions = <<"closed", "none", "closed">>
    /\ closes = <<1, 0, 1>>
    /\ Succeeded(1)
    /\ replies[3] # <<>> /\ replies[3][Len(replies[3])].failed

\* C4: once the processing of a device has ended, by any exit including an
\* exception from the transport, no session is left open.
C4_ReleasedOnEveryExit ==
    (BetweenDevices \/ pc = "raised") =>
        \A i \in Iterations : sessions[i] # "open"

\* C5: a failed reply is the last thing that happens on its device: no stage
\* is sent after it, the device is not added to success, and when the loop
\* leaves the device status['errors'] holds that stage's output for the address.
C5_FailFast ==
    \A i \in Iterations : \A k \in 1..Len(replies[i]) :
        replies[i][k].failed =>
            /\ k = Len(submitted[i])
            /\ Len(status.success) = Len(SucceededUpTo(idx))
            /\ ~Succeeded(i)
            /\ (i = idx /\ pc = "loop") =>
                   /\ dictHas(status.errors, valid_ips[i])
                   /\ dictGet(status.errors, valid_ips[i]) = replies[i][k].result

C5_Witness ==
    /\ pc = "loop" /\ idx = 2
    /\ Succeeded(1)
    /\ submitted[2] = <<"remove", "apply">>
    /\ ~replies[2][1].failed /\ replies[2][2].failed
    /\ valid_ips[1] = valid_ips[2]

\* C6: while the current iteration has no session (connectSSH returned none),
\* no stage is attempted for it: the loop is back at its head.
C6_FailedConnectSkipsDevice ==
    (idx >= 1 /\ idx \in Iterations /\ sessions[idx] = "none" /\ pc # "raised")
        => BetweenDevices

\* C7: at the end of a run the printed success and error counts plus the
\* number of invalid entries equal the number of non-blank input lines.
C7_CountsSumToInput ==
    RunCompleted =>
        printed[1] + printed[2] + Len(invalid_ips) = Cardinality(NonBlankLines)

\* C8: the remove-default stage is sent to a connected device iff
\* REMOVE_DEFAULT_PROFILE is set; with the toggle off the first stage sent is
\* the apply-profile stage and success needs only apply and register.
C8_RemoveIffToggle ==
    /\ (pc = "remove" => REMOVE_DEFAULT_PROFILE)
    /\ \A i \in Iterations :
          /\ ("remove" \in Range(submitted[i])) => REMOVE_DEFAULT_PROFILE
          /\ (sessions[i] # "none" /\ ~(i = idx /\ pc = "remove")) =>
                 (REMOVE_DEFAULT_PROFILE => "remove" \in Range(submitted[i]))
          /\ (submitted[i] # <<>>) =>
                 submitted[i][1] = IF REMOVE_DEFAULT_PROFILE THEN "remove" ELSE "apply"
          /\ (~REMOVE_DEFAULT_PROFILE /\ Succeeded(i)) =>
                 submitted[i] = <<"apply", "register">>

C8_Witness ==
    /\ ~REMOVE_DEFAULT_PROFILE
    /\ pc = "loop" /\ idx = 2
    /\ Succeeded(1)
    /\ submitted[2] = <<"apply">> /\ replies[2][1].failed

\* C9: at most one session is open at any time, and none is open when the
\* loop takes the next address.
C9_OneSessionAtATime ==
    /\ Cardinality({i \in Iterations : sessions[i] = "open"}) <= 1
    /\ \A i \in Iterations : sessions[i] = "open" => (i = idx /\ ~BetweenDevices)

C9_Witness ==
    /\ idx = 3
    /\ sessions = <<"closed", "closed", "open">>
    /\ replies[1][Len(replies[1])].failed
    /\ Succeeded(2)

\* C10: the hosts passed to connectSSH are the valid addresses in input order
\* (all of them once the run completes), and the success list is the
\* succeeded ones in that same order.
C10_InputOrder ==
    pc \notin {"start", "prompt", "enter"} =>
        /\ idx <= Len(valid_ips)
        /\ connects = SubSeq(valid_ips, 1, idx)
        /\ (RunCompleted => connects = valid_ips)
        /\ (BetweenDevices => status.success = SucceededUpTo(idx))

C10_Witness ==
    /\ RunCompleted
    /\ Len(connects) = 3
    /\ connects[1] # connects[2]
    /\ status.success = <<valid_ips[1], valid_ips[3]>>

\* The stripped texts of the file positions in K, in file order.
RECURSIVE LinesAt(_, _)
LinesAt(K, n) ==
    IF n = 0 THEN <<>>
    ELSE IF n \in K THEN Append(LinesAt(K, n - 1), strip(file[n]))
         ELSE LinesAt(K, n - 1)

\* loadDeviceList has returned.
Loaded == pc \notin {"start", "raised"} \/ (pc = "raised" /\ readable)

\* loadDeviceList has just returned its two lists to run().
JustLoaded == pc = "prompt"

\* C11: loadDeviceList puts every non-blank line, stripped, in exactly one of
\* valid_ips (it parses as an address) and invalid_ips (it does not), blank
\* lines in neither, each list in file order; the two lengths add up to the
\* number of non-blank lines.
C11_LoadPartitions ==
    JustLoaded =>
        /\ valid_ips = LinesAt({k \in NonBlankLines : ip_address(strip(file[k]))},
                               Len(file))
        /\ invalid_ips = LinesAt({k \in NonBlankLines : ~ip_address(strip(file[k]))},
                                 Len(file))
        /\ Range(valid_ips) \cap Range(invalid_ips) = {}
        /\ <<>> \notin Range(valid_ips) \cup Range(invalid_ips)
        /\ Len(valid_ips) + Len(invalid_ips) = Cardinality(NonBlankLines)

C11_Witness ==
    /\ pc = "prompt"
    /\ file = <<LineHost, LineBlank, LineA2>>
    /\ valid_ips = <<<<"1", ".", "1", ".", "1", ".", "1">>>>
    /\ invalid_ips = <<<<"a", ".", "b">>>>

\* updateConfiguration has ended, by return or by an exception.
UpdateEnded == pc \in {"report", "done"} \/ (pc = "raised" /\ exc # "OSError")

\* C12: one connection attempt per entry of the valid list and none for an
\* invalid entry, no retry; a list without valid entries ends with empty
\* success and errors and no device contacted.
C12_OneAttemptPerEntry ==
    /\ Range(invalid_ips) \cap Range(connects) = {}
    /\ Len(connects) <= Len(valid_ips)
    /\ UpdateEnded => Len(connects) = Len(valid_ips)
    /\ (Loaded /\ valid_ips = <<>>) =>
           /\ connects = <<>>
           /\ status = EmptyStatus
           /\ pc # "raised"

\* C13: at the end of the run, an address whose connection failed
\* authentication is in status['errors'] with that error as its reason and is
\* not in status['success'].
C13_AuthFailureOnlyInErrors ==
    RunCompleted =>
        \A i \in 1..Len(opens) :
            opens[i].kind = "auth" =>
                /\ connects[i] \notin Range(status.success)
                /\ dictHas(status.errors, connects[i])
                /\ dictGet(status.errors, connects[i]) = opens[i].err

\* C14: what connectSSH hands back for an authentication failure differs from
\* what it hands back for a privilege failure.
C14_AuthAndPrivDistinct ==
    \A i, j \in 1..Len(opens) :
        (opens[i].kind = "auth" /\ opens[j].kind = "priv") =>
            opens[i].err # opens[j].err

\* The failure iteration i recorded, if it recorded one: the text and TRUE, or
\* FALSE.
RecordedFailure(i) ==
    IF opens[i].kind \in {"auth", "priv"} /\ Truthy(opens[i].err)
    THEN [any |-> TRUE, reason |-> opens[i].err]
    ELSE IF replies[i] # <<>> /\ replies[i][Len(replies[i])].failed
         THEN [any |-> TRUE, reason |-> replies[i][Len(replies[i])].result]
         ELSE [any |-> FALSE, reason |-> None]

\* C15: a recorded failure stays in status['errors'] with its reason: between
\* devices and at the end, every failure recorded so far is still there
\* unchanged.
C15_NoRecordLost ==
    BetweenDevices =>
        \A i \in 1..idx :
            RecordedFailure(i).any =>
                /\ dictHas(status.errors, valid_ips[i])
                /\ dictGet(status.errors, valid_ips[i]) = RecordedFailure(i).reason

\* C16: an unreadable device list ends the run in loadDeviceList, before any
\* credential, connection, stage or report entry, and no other error leaves
\* run().
C16_OnlyStartupErrorPropagates ==
    /\ (~readable /\ pc # "start") =>
           /\ pc = "raised" /\ exc = "OSError"
           /\ creds = NoCreds
           /\ connects = <<>> /\ submitted = <<>>
           /\ status = EmptyStatus /\ printed = <<>>
    /\ pc = "raised" => (exc = "OSError" /\ ~readable)

\* The stage sequence of one device.
ExpectedStages ==
    IF REMOVE_DEFAULT_PROFILE THEN <<"remove", "apply", "register">>
    ELSE <<"apply", "register">>

\* Iteration i sent exactly the expected stages and every one passed.
FullyStaged(i) ==
    /\ submitted[i] = ExpectedStages
    /\ Len(replies[i]) = Len(ExpectedStages)
    /\ \A k \in 1..Len(replies[i]) : ~replies[i][k].failed

\* C17: stages go out in the fixed order, each at most once, each only after
\* the one before passed, on the open session of the current iteration; the
\* success list holds exactly the devices that got the whole sequence through.
C17_SuccessOnlyAfterAllStages ==
    /\ \A i \in Iterations :
          /\ Len(submitted[i]) <= Len(ExpectedStages)
          /\ submitted[i] = SubSeq(ExpectedStages, 1, Len(submitted[i]))
          /\ Len(replies[i]) <= Len(submitted[i])
          /\ \A k \in 1..(Len(submitted[i]) - 1) :
                Len(replies[i]) >= k /\ ~replies[i][k].failed
          /\ submitted[i] # <<>> => sessions[i] # "none"
    /\ (pc \in {"remove", "apply", "register"} /\ c # NoSession) =>
           (c = idx /\ sessions[idx] = "open")
    /\ BetweenDevices =>
           /\ Len(status.success) = Cardinality({i \in 1..idx : FullyStaged(i)})
           /\ Range(status.success) = {valid_ips[i] : i \in {j \in 1..idx : FullyStaged(j)}}

C17_Witness ==
    /\ REMOVE_DEFAULT_PROFILE
    /\ pc = "loop" /\ idx = 2
    /\ status.success = <<valid_ips[2]>>
    /\ FullyStaged(2)
    /\ submitted[1] = <<"remove", "apply">> /\ replies[1][2].failed

\* C18: updateConfiguration ends after the last address, every device having
\* reached Done(Success) or Done(Failure), with progress advanced once per
\* address.
C18_EndsAfterLastAddress ==
    /\ advanced <= idx
    /\ UpdateEnded =>
          /\ idx = Len(valid_ips)
          /\ advanced = Len(valid_ips)

\* C19: a stage call is never reached with c = None, whatever the text of the
\* caught exception: a connectSSH result without a session always takes the
\* failure branch.
C19_NoStageOnMissingSession ==
    /\ pc \in {"remove", "apply", "register"} => c # NoSession
    /\ exc # "AttributeError"

====
